---- MODULE Spec2Model ----
(***************************************************************************)
(* Google Drive file copy: the paginated listing calls, the name resolver, *)
(* the copy loop of the app and the folder path builder, as state          *)
(* machines.  Strings are sequences of character codes, so that lower(),   *)
(* strip(), rsplit(), " / ".join() and string comparison are computed.     *)
(***************************************************************************)
EXTENDS Integers, Sequences, FiniteSets, TLC

VARIABLES
    list_pc,      \* position of the running listing call
    call,         \* which listing function is running
    page_token,   \* local page_token of the listing call
    files,        \* local files of list_files_in_folder (its return value)
    folders,      \* local folders of list_folders_with_parents
    requests,     \* page requests sent to the service, in order
    responses,    \* pages the service answered, in order
    rpc,          \* position of resolve_names_to_file_ids
    names,        \* argument names of resolve_names_to_file_ids
    requested,    \* local requested
    matched,      \* matched pairs (resolver result, copy loop input)
    not_found,    \* names not found
    cpc,          \* position of the copy loop
    i,            \* loop index of the copy loop
    success,      \* success counter
    errors,       \* error strings
    trace,        \* copy requests and progress reports, in order
    tree,         \* state of build_folder_paths
    app           \* session state and position of the app script

listVars == <<list_pc, call, page_token, files, folders, requests, responses>>
resolveVars == <<rpc, names, requested, not_found>>
copyVars == <<cpc, i, success, errors, trace>>
vars == <<listVars, resolveVars, matched, copyVars, tree, app>>

(* ------------------------------ bounds -------------------------------- *)
MaxPages == 2
MaxFiles == 2
MaxNames == 2
MaxPairs == 3
MaxFolders == 3
MaxParents == 2

(* ------------------------------ strings ------------------------------- *)
\* "f1", "f2", ...: the k-th file id the service hands out
FileId(k) == <<102, 48 + k>>
\* "t1", "t2": continuation tokens
Tokens == {"t1", "t2"}
\* None: no continuation token
None == "None"

SeqsUpTo(S, n) == UNION {[1..k -> S] : k \in 0..n}

Min(S) == CHOOSE x \in S : \A y \in S : x <= y
Max(S) == CHOOSE x \in S : \A y \in S : x >= y

\* str.lower()
Lower(s) == [k \in 1..Len(s) |-> IF s[k] \in 65..90 THEN s[k] + 32 ELSE s[k]]

IsSpace(c) == c \in {9, 10, 11, 12, 13, 28, 29, 30, 31, 32}

\* str.strip()
Strip(s) ==
    LET keep == {k \in 1..Len(s) : ~IsSpace(s[k])}
    IN IF keep = {} THEN <<>> ELSE SubSeq(s, Min(keep), Max(keep))

\* "." in n
HasDot(s) == \E k \in 1..Len(s) : s[k] = 46

\* key.rsplit(".", 1)[0]
RsplitHead(s) ==
    IF HasDot(s) THEN SubSeq(s, 1, Max({k \in 1..Len(s) : s[k] = 46}) - 1) ELSE s

\* key.rsplit(".", 1)[0] if "." in n else key
BaseOf(n, key) == IF HasDot(n) THEN RsplitHead(key) ELSE key

\* Python's str < str: by code point, a proper prefix first
RECURSIVE StrLess(_, _)
StrLess(a, b) ==
    IF b = <<>> THEN FALSE
    ELSE IF a = <<>> THEN TRUE
    ELSE IF Head(a) # Head(b) THEN Head(a) < Head(b)
    ELSE StrLess(Tail(a), Tail(b))

(* ------------------------- the remote service ------------------------- *)
\* names of the files the service may hold: "p.j", "P.J", "p"
FileNames == {<<112, 46, 106>>, <<80, 46, 74>>, <<112>>}

\* nextPageToken of a page: only the first MaxPages - 1 pages may carry one
NextTokens == IF Len(responses) + 1 < MaxPages THEN Tokens \cup {None} ELSE {None}

\* the pages of files the service may answer with after `have` files
FileBatches(have) ==
    {[k \in 1..Len(ns) |-> [id |-> FileId(have + k), name |-> ns[k]]] :
        ns \in SeqsUpTo(FileNames, MaxFiles - have)}

(* ----------------------- list_files_in_folder ------------------------- *)
ListFilesCall ==
    /\ call' = "list_files_in_folder"
    /\ list_pc' = "request"
    /\ files' = <<>>
    /\ page_token' = None
    /\ requests' = <<>>
    /\ responses' = <<>>
    /\ UNCHANGED folders

\* the token a request carries: kwargs["pageToken"] only if page_token is truthy
RequestToken == IF page_token # None THEN page_token ELSE None

FilesRequest ==
    /\ call = "list_files_in_folder"
    /\ list_pc = "request"
    /\ requests' = Append(requests, [pageToken |-> RequestToken])
    /\ list_pc' = "await"
    /\ UNCHANGED <<call, page_token, files, folders, responses>>

\* FilesResponse with a slip: page_token is not updated from the page
FilesResponseKeepsToken ==
    /\ call = "list_files_in_folder"
    /\ list_pc = "await"
    /\ \E batch \in FileBatches(Len(files)), next \in NextTokens :
        /\ responses' = Append(responses, [files |-> batch, nextPageToken |-> next])
        /\ files' = files \o batch
        /\ page_token' = page_token
        /\ list_pc' = IF next = None THEN "returned" ELSE "request"
    /\ UNCHANGED <<call, folders, requests>>

FilesResponse ==
    /\ call = "list_files_in_folder"
    /\ list_pc = "await"
    /\ \E batch \in FileBatches(Len(files)), next \in NextTokens :
        /\ responses' = Append(responses, [files |-> batch, nextPageToken |-> next])
        /\ files' = files \o batch
        /\ page_token' = next
        /\ list_pc' = IF next = None THEN "returned" ELSE "request"
    /\ UNCHANGED <<call, folders, requests>>

\* FilesRaise with a slip: the error is swallowed, the pages so far returned
FilesRaiseReturnsPartial ==
    /\ call = "list_files_in_folder"
    /\ list_pc = "await"
    /\ list_pc' = "returned"
    /\ UNCHANGED <<call, page_token, files, folders, requests, responses>>

\* execute() raises HttpError, which the except clause re-raises
FilesRaise ==
    /\ call = "list_files_in_folder"
    /\ list_pc = "await"
    /\ list_pc' = "raised"
    /\ UNCHANGED <<call, page_token, files, folders, requests, responses>>

(* -------------------- list_folders_with_parents ----------------------- *)
\* "d1", "d2", ...: the k-th folder id the service hands out
FolderIdOf(k) == <<100, 48 + k>>

\* the id of the virtual root: "root"
RootId == <<114, 111, 111, 116>>

\* a folder record of a page: the service may leave "parents" out
PageFolders ==
    {[name |-> <<97>>], [name |-> <<97>>, parents |-> <<>>],
     [name |-> <<97>>, parents |-> <<RootId>>]}

FolderBatches(have) ==
    {[k \in 1..Len(rs) |->
        IF "parents" \in DOMAIN rs[k]
        THEN [id |-> FolderIdOf(have + k), name |-> rs[k].name, parents |-> rs[k].parents]
        ELSE [id |-> FolderIdOf(have + k), name |-> rs[k].name]] :
        rs \in SeqsUpTo(PageFolders, MaxFiles - have)}

\* if "parents" not in f: f["parents"] = []
WithParents(f) ==
    IF "parents" \in DOMAIN f THEN f
    ELSE [id |-> f.id, name |-> f.name, parents |-> <<>>]

ListFoldersCall ==
    /\ call' = "list_folders_with_parents"
    /\ list_pc' = "request"
    /\ folders' = <<>>
    /\ page_token' = None
    /\ requests' = <<>>
    /\ responses' = <<>>
    /\ UNCHANGED files

FoldersRequest ==
    /\ call = "list_folders_with_parents"
    /\ list_pc = "request"
    /\ requests' = Append(requests, [pageToken |-> RequestToken])
    /\ list_pc' = "await"
    /\ UNCHANGED <<call, page_token, files, folders, responses>>

FoldersResponse ==
    /\ call = "list_folders_with_parents"
    /\ list_pc = "await"
    /\ \E batch \in FolderBatches(Len(folders)), next \in NextTokens :
        /\ responses' = Append(responses, [files |-> batch, nextPageToken |-> next])
        /\ folders' = folders \o [k \in 1..Len(batch) |-> WithParents(batch[k])]
        /\ page_token' = next
        /\ list_pc' = IF next = None THEN "returned" ELSE "request"
    /\ UNCHANGED <<call, files, requests>>

\* execute() raises HttpError, which the except clause re-raises
FoldersRaise ==
    /\ call = "list_folders_with_parents"
    /\ list_pc = "await"
    /\ list_pc' = "raised"
    /\ UNCHANGED <<call, page_token, files, folders, requests, responses>>

(* -------------------- resolve_names_to_file_ids ----------------------- *)
\* [n.strip() for n in names if n.strip()]
RECURSIVE Requested(_)
Requested(ns) ==
    IF ns = <<>> THEN <<>>
    ELSE IF Strip(Head(ns)) # <<>> THEN <<Strip(Head(ns))>> \o Requested(Tail(ns))
    ELSE Requested(Tail(ns))

\* the dict name_lower_to_ids after the loop over fs
RECURSIVE NameLowerToIds(_)
NameLowerToIds(fs) ==
    IF fs = <<>> THEN <<>>
    ELSE LET rest == NameLowerToIds(SubSeq(fs, 1, Len(fs) - 1))
             f == fs[Len(fs)]
             key == Lower(f.name)
         IN IF key \in DOMAIN rest
            THEN [rest EXCEPT ![key] = Append(@, <<f.id, f.name>>)]
            ELSE [k \in DOMAIN rest \cup {key} |->
                    IF k = key THEN <<(<<f.id, f.name>>)>> ELSE rest[k]]

\* the dict base_lower_to_ids after the loop over fs
RECURSIVE BaseLowerToIds(_)
BaseLowerToIds(fs) ==
    IF fs = <<>> THEN <<>>
    ELSE LET rest == BaseLowerToIds(SubSeq(fs, 1, Len(fs) - 1))
             f == fs[Len(fs)]
             base == BaseOf(f.name, Lower(f.name))
         IN IF base \in DOMAIN rest
            THEN [rest EXCEPT ![base] = Append(@, <<f.id, f.name>>)]
            ELSE [k \in DOMAIN rest \cup {base} |->
                    IF k = base THEN <<(<<f.id, f.name>>)>> ELSE rest[k]]

\* ResolveOne with a slip: only the first file of a bucket is taken
ResolveOneFirstOnly(n, byName, byBase) ==
    LET key == Lower(n)
        base == BaseOf(n, key)
    IN IF key \in DOMAIN byName
       THEN [matched |-> <<byName[key][1]>>, not_found |-> <<>>]
       ELSE IF base \in DOMAIN byBase
       THEN [matched |-> <<byBase[base][1]>>, not_found |-> <<>>]
       ELSE [matched |-> <<>>, not_found |-> <<n>>]

\* what one requested name n appends: [matched part, not_found part]
ResolveOne(n, byName, byBase) ==
    LET key == Lower(n)
        base == BaseOf(n, key)
    IN IF key \in DOMAIN byName THEN [matched |-> byName[key], not_found |-> <<>>]
       ELSE IF base \in DOMAIN byBase THEN [matched |-> byBase[base], not_found |-> <<>>]
       ELSE [matched |-> <<>>, not_found |-> <<n>>]

\* ResolveLoop with a slip: a resolved name is reported as not found too
RECURSIVE ResolveLoopAlsoNotFound(_, _, _)
ResolveLoopAlsoNotFound(req, byName, byBase) ==
    IF req = <<>> THEN [matched |-> <<>>, not_found |-> <<>>]
    ELSE LET one == ResolveOne(Head(req), byName, byBase)
             rest == ResolveLoopAlsoNotFound(Tail(req), byName, byBase)
         IN [matched |-> one.matched \o rest.matched,
             not_found |-> <<Head(req)>> \o rest.not_found]

\* the loop over requested
RECURSIVE ResolveLoop(_, _, _)
ResolveLoop(req, byName, byBase) ==
    IF req = <<>> THEN [matched |-> <<>>, not_found |-> <<>>]
    ELSE LET one == ResolveOne(Head(req), byName, byBase)
             rest == ResolveLoop(Tail(req), byName, byBase)
         IN [matched |-> one.matched \o rest.matched,
             not_found |-> one.not_found \o rest.not_found]

\* requested names: " ", "P.j ", "p", "p.x", "q"
ReqNames == {<<32>>, <<80, 46, 106, 32>>, <<112>>, <<112, 46, 120>>, <<113>>}

\* ResolveBegin with a slip: the folder is listed before the early return
ResolveBeginListsFirst ==
    /\ rpc = "start"
    /\ requested' = Requested(names)
    /\ ListFilesCall
    /\ rpc' = "listing"
    /\ UNCHANGED <<matched, not_found>>
    /\ UNCHANGED <<names, copyVars, tree, app>>

\* lines 291-295: trim, return early on nothing requested, else list the folder
ResolveBegin ==
    /\ rpc = "start"
    /\ requested' = Requested(names)
    /\ IF requested' = <<>>
       THEN /\ matched' = <<>>
            /\ not_found' = <<>>
            /\ rpc' = "done"
            /\ UNCHANGED listVars
       ELSE /\ ListFilesCall
            /\ rpc' = "listing"
            /\ UNCHANGED <<matched, not_found>>
    /\ UNCHANGED <<names, copyVars, tree, app>>

\* lines 296-325: index the listing and match every requested name
ResolveEnd ==
    /\ rpc = "listing"
    /\ list_pc = "returned"
    /\ LET r == ResolveLoop(requested, NameLowerToIds(files), BaseLowerToIds(files))
       IN /\ matched' = r.matched
          /\ not_found' = r.not_found
    /\ rpc' = "done"
    /\ list_pc' = "idle"
    /\ UNCHANGED <<call, page_token, files, folders, requests, responses>>
    /\ UNCHANGED <<names, requested, copyVars, tree, app>>

\* the HttpError of the listing leaves resolve_names_to_file_ids uncaught
ResolveRaise ==
    /\ rpc = "listing"
    /\ list_pc = "raised"
    /\ rpc' = "raised"
    /\ list_pc' = "idle"
    /\ UNCHANGED <<call, page_token, files, folders, requests, responses>>
    /\ UNCHANGED <<names, requested, matched, not_found, copyVars, tree, app>>

ResolveListing ==
    /\ rpc = "listing"
    /\ (FilesRequest \/ FilesResponse \/ FilesRaise)
    /\ UNCHANGED <<resolveVars, matched, copyVars, tree, app>>

IdleList ==
    /\ list_pc = "idle" /\ call = "none" /\ page_token = None
    /\ files = <<>> /\ folders = <<>> /\ requests = <<>> /\ responses = <<>>
IdleResolve == rpc = "idle" /\ names = <<>> /\ requested = <<>> /\ not_found = <<>>
IdleCopy == cpc = "idle" /\ i = 0 /\ success = 0 /\ errors = <<>> /\ trace = <<>>
IdleTree == tree = [phase |-> "idle"]

\* None in a slot that holds a folder id (a folder id is a non-empty string)
NoFolder == <<>>

\* st.session_state after init_session_state, the script not running; `pending`,
\* `follows_click` and `fetched` record the history of the runs
IdleApp ==
    app = [pc |-> "idle",
           source_folder_id |-> NoFolder,
           source_files_cache |-> None,
           source_files_cache_id |-> NoFolder,
           pending |-> FALSE, follows_click |-> FALSE, fetched |-> FALSE]

InitResolve ==
    /\ IdleList /\ IdleCopy /\ IdleTree /\ IdleApp
    /\ rpc = "start"
    /\ names \in SeqsUpTo(ReqNames, MaxNames)
    /\ requested = <<>> /\ matched = <<>> /\ not_found = <<>>

NextResolve == ResolveBegin \/ ResolveListing \/ ResolveEnd \/ ResolveRaise

SpecResolve == InitResolve /\ [][NextResolve]_vars

(* ------------------- properties of the name resolver ------------------ *)
Pairs(fs) == [k \in 1..Len(fs) |-> <<fs[k].id, fs[k].name>>]

\* s without its last "."-delimited extension
StripExt(s) ==
    IF \E k \in 1..Len(s) : s[k] = 46
    THEN LET d == CHOOSE k \in 1..Len(s) :
                    s[k] = 46 /\ \A j \in (k + 1)..Len(s) : s[j] # 46
         IN SubSeq(s, 1, d - 1)
    ELSE s

\* all listed files whose lowercased full name is that of n, in listing order
ExactBucket(n) ==
    LET Same(f) == Lower(f.name) = Lower(n) IN Pairs(SelectSeq(files, Same))

\* all listed files whose lowercased name without extension is that of n
BaseBucket(n) ==
    LET Same(f) == StripExt(Lower(f.name)) = StripExt(Lower(n))
    IN Pairs(SelectSeq(files, Same))

Expected(n) == IF ExactBucket(n) # <<>> THEN ExactBucket(n) ELSE BaseBucket(n)

RECURSIVE Concat(_)
Concat(ss) == IF ss = <<>> THEN <<>> ELSE Head(ss) \o Concat(Tail(ss))

Blank(n) == \A k \in 1..Len(n) : IsSpace(n[k])

\* C1: once the folder is listed, what a requested name appends is the whole
\* bucket of files with its lowercased full name if there is one, and otherwise
\* the whole bucket of files with its lowercased base name; never a part of one.
C1_WholeBucket ==
    (rpc = "done" /\ requested # <<>>) =>
        \A k \in 1..Len(requested) :
            LET n == requested[k]
                got == ResolveOne(n, NameLowerToIds(files), BaseLowerToIds(files)).matched
            IN /\ ExactBucket(n) # <<>> => got = ExactBucket(n)
               /\ (ExactBucket(n) = <<>> /\ BaseBucket(n) # <<>>) => got = BaseBucket(n)
               /\ (ExactBucket(n) = <<>> /\ BaseBucket(n) = <<>>) => got = <<>>

\* "P.j" takes both "p.j" and "P.J"; "p.x" falls back to the base name "p"
C1_Witness ==
    /\ rpc = "done"
    /\ requested = << <<80, 46, 106>>, <<112, 46, 120>> >>
    /\ Len(files) = 2
    /\ Len(matched) = 4

\* C2: matched is the concatenation, in requested order, of the buckets of the
\* resolved names; not_found is the unresolved trimmed names in requested
\* order; every requested name is in exactly one of the two.
C2_Partition ==
    (rpc = "done" /\ requested # <<>>) =>
        LET Unresolved(n) == Expected(n) = <<>>
        IN /\ matched = Concat([k \in 1..Len(requested) |-> Expected(requested[k])])
           /\ not_found = SelectSeq(requested, Unresolved)
           /\ LET NotBlank(n) == ~Blank(n)
                  kept == SelectSeq(names, NotBlank)
              IN requested = [k \in 1..Len(kept) |-> Strip(kept[k])]

\* "q" is not found, "p" is: one name on each side
C2_Witness ==
    /\ rpc = "done"
    /\ requested = << <<113>>, <<112>> >>
    /\ not_found = << <<113>> >>
    /\ Len(matched) = 2

\* C3: with nothing requested (no names, or blank names only) the resolver
\* returns two empty lists and sends no listing request.
C3_NoListing ==
    (rpc # "start" /\ \A k \in 1..Len(names) : Blank(names[k])) =>
        /\ rpc = "done"
        /\ matched = <<>> /\ not_found = <<>>
        /\ requests = <<>> /\ list_pc = "idle"

C3_Witness == rpc = "done" /\ names = << <<32>>, <<32>> >> /\ requests = <<>>

(* --------------------- a listing call on its own ---------------------- *)
InitList ==
    /\ IdleResolve /\ IdleCopy /\ IdleTree /\ IdleApp
    /\ matched = <<>>
    /\ call \in {"list_folders_with_parents", "list_files_in_folder"}
    /\ list_pc = "request"
    /\ page_token = None
    /\ files = <<>> /\ folders = <<>> /\ requests = <<>> /\ responses = <<>>

ListRequest ==
    /\ rpc = "idle"
    /\ (FilesRequest \/ FoldersRequest)
    /\ UNCHANGED <<resolveVars, matched, copyVars, tree, app>>

ListResponse ==
    /\ rpc = "idle"
    /\ (FilesResponse \/ FoldersResponse)
    /\ UNCHANGED <<resolveVars, matched, copyVars, tree, app>>

ListRaise ==
    /\ rpc = "idle"
    /\ (FilesRaise \/ FoldersRaise)
    /\ UNCHANGED <<resolveVars, matched, copyVars, tree, app>>

NextList == ListRequest \/ ListResponse \/ ListRaise

SpecList == InitList /\ [][NextList]_vars

\* the records of all answered pages, in page order
AllPages == Concat([k \in 1..Len(responses) |-> responses[k].files])

\* C10: the first page request carries no token, each later one carries the
\* token of the page before it, a request is sent only after the previous
\* answer, none is sent after a page without a token, and the call returns the
\* records of all pages in page order.
C10_Pagination ==
    /\ Len(responses) <= Len(requests) /\ Len(requests) <= Len(responses) + 1
    /\ list_pc = "request" => Len(requests) = Len(responses)
    /\ list_pc = "await" => Len(requests) = Len(responses) + 1
    /\ requests # <<>> => requests[1].pageToken = None
    /\ \A k \in 2..Len(requests) :
        /\ responses[k - 1].nextPageToken # None
        /\ requests[k].pageToken = responses[k - 1].nextPageToken
    /\ (list_pc = "request" /\ responses # <<>>) =>
          responses[Len(responses)].nextPageToken # None
    /\ list_pc = "returned" =>
        /\ Len(requests) = Len(responses)
        /\ responses[Len(responses)].nextPageToken = None
        /\ call = "list_files_in_folder" => files = AllPages
        /\ call = "list_folders_with_parents" =>
            /\ Len(folders) = Len(AllPages)
            /\ \A k \in 1..Len(folders) :
                /\ folders[k].id = AllPages[k].id
                /\ folders[k].name = AllPages[k].name
                /\ folders[k].parents =
                     IF "parents" \in DOMAIN AllPages[k] THEN AllPages[k].parents ELSE <<>>

\* a listing of two pages has returned, the second asked for with the first's token
C10_Witness ==
    /\ list_pc = "returned"
    /\ Len(requests) = 2
    /\ requests[2].pageToken = "t2"
    /\ Len(files) + Len(folders) = 2
    /\ responses[1].files # <<>>

\* C11: a page request that fails, the first or a later one, fails the whole
\* listing call: the call ends raised with that request unanswered, no request
\* follows (no retry), and a call returns records only if every one of its
\* page requests was answered, so the pages before a failure are not returned.
C11_ListingFailsWhole ==
    /\ [](list_pc = "returned" => Len(responses) = Len(requests))
    /\ [](list_pc = "raised" => Len(requests) = Len(responses) + 1)
    /\ [][(list_pc = "await" /\ responses' = responses) =>
            (list_pc' = "raised" /\ requests' = requests)]_vars
    /\ [][list_pc = "raised" =>
            (list_pc' = "raised" /\ requests' = requests /\ responses' = responses)]_vars

\* the second page request failed after a first page with a record had arrived
C11_Witness ==
    /\ list_pc = "raised"
    /\ Len(requests) = 2
    /\ Len(responses) = 1
    /\ responses[1].files # <<>>
    /\ files \o folders # <<>>

(* ------------------- the copy loop of main (app.py) ------------------- *)
\* the destination folder id: "dst"
DestId == <<100, 115, 116>>

\* what str(e) of a failed copy may be: "E"
ErrorTexts == {<<69>>}

\* f"{file_name}: {e}"
ErrorLine(file_name, e) == file_name \o <<58, 32>> \o e

\* progress.progress(value, text=...), the value as <<numerator, denominator>>
Progress(num, den, text) == [ev |-> "progress", value |-> <<num, den>>, text |-> text]

\* the pairs a copy may be asked for: ("f1", "a"), ("f2", "a"), ("f3", "b")
PairChoices == {<<FileId(1), <<97>> >>, <<FileId(2), <<97>> >>, <<FileId(3), <<98>> >>}

\* lines 266-269: the progress bar is created, the counters are reset
CopyStart ==
    /\ cpc = "start"
    /\ trace' = Append(trace, Progress(0, 1, "Copying..."))
    /\ success' = 0
    /\ errors' = <<>>
    /\ i' = 0
    /\ cpc' = IF Len(matched) > 0 THEN "issue" ELSE "finish"
    /\ UNCHANGED <<listVars, resolveVars, matched, tree, app>>

\* lines 270-272 and 279-280 of drive_service.py: the copy request of item i
CopyIssue ==
    /\ cpc = "issue"
    /\ trace' = Append(trace, [ev |-> "copy", fileId |-> matched[i + 1][1],
                               body |-> [name |-> matched[i + 1][2],
                                         parents |-> <<DestId>>]])
    /\ cpc' = "await"
    /\ UNCHANGED <<listVars, resolveVars, matched, i, success, errors, tree, app>>

\* after the body of the try statement: line 276 and the loop's next turn
AfterItem ==
    /\ i' = i + 1
    /\ cpc' = IF i + 1 < Len(matched) THEN "issue" ELSE "finish"

\* CopyReturn with a slip: progress is not reported after a success
CopyReturnNoProgress ==
    /\ cpc = "await"
    /\ success' = success + 1
    /\ trace' = Append(trace, [ev |-> "returned"])
    /\ AfterItem
    /\ UNCHANGED <<listVars, resolveVars, matched, errors, tree, app>>

\* lines 273 and 276: the copy returned
CopyReturn ==
    /\ cpc = "await"
    /\ success' = success + 1
    /\ trace' = trace \o <<[ev |-> "returned"],
                           Progress(i + 1, Len(matched), "Copying i/total...")>>
    /\ AfterItem
    /\ UNCHANGED <<listVars, resolveVars, matched, errors, tree, app>>

\* CopyRaise with a slip: the first failure ends the loop
CopyRaiseAborts ==
    /\ cpc = "await"
    /\ \E e \in ErrorTexts : errors' = Append(errors, ErrorLine(matched[i + 1][2], e))
    /\ trace' = trace \o <<[ev |-> "raised"],
                           Progress(i + 1, Len(matched), "Copying i/total...")>>
    /\ i' = i + 1
    /\ cpc' = "finish"
    /\ UNCHANGED <<listVars, resolveVars, matched, success, tree, app>>

\* lines 274-276: the copy raised
CopyRaise ==
    /\ cpc = "await"
    /\ \E e \in ErrorTexts : errors' = Append(errors, ErrorLine(matched[i + 1][2], e))
    /\ trace' = trace \o <<[ev |-> "raised"],
                           Progress(i + 1, Len(matched), "Copying i/total...")>>
    /\ AfterItem
    /\ UNCHANGED <<listVars, resolveVars, matched, success, tree, app>>

\* line 277: the loop is over
CopyFinish ==
    /\ cpc = "finish"
    /\ trace' = Append(trace, Progress(1, 1, "Done."))
    /\ cpc' = "done"
    /\ UNCHANGED <<listVars, resolveVars, matched, i, success, errors, tree, app>>

InitCopy ==
    /\ IdleList /\ IdleResolve /\ IdleTree /\ IdleApp
    /\ matched \in SeqsUpTo(PairChoices, MaxPairs) \ {<<>>}
    /\ cpc = "start"
    /\ i = 0 /\ success = 0 /\ errors = <<>> /\ trace = <<>>

NextCopy == CopyStart \/ CopyIssue \/ CopyReturn \/ CopyRaise \/ CopyFinish

SpecCopy == InitCopy /\ [][NextCopy]_vars

(* --------------------- properties of the copy loop -------------------- *)
IsCopy(e) == e.ev = "copy"
IsOutcome(e) == e.ev \in {"returned", "raised"}
IsItemProgress(e) == e.ev = "progress" /\ e.text = "Copying i/total..."

\* the outcomes of the items attempted so far, in item order
Outcomes == SelectSeq(trace, IsOutcome)

\* the items whose copy raised, in item order
Failed == {k \in 1..Len(Outcomes) : Outcomes[k].ev = "raised"}

\* C4: one copy request per pair, in the given order, whatever fails; at the
\* end success plus the number of errors is the number of pairs, and errors
\* has one entry per failed item, with its file name, in item order.
C4_EveryItemAttempted ==
    LET copies == SelectSeq(trace, IsCopy)
        n == Len(matched)
    IN /\ Len(copies) <= n
       /\ \A k \in 1..Len(copies) :
            /\ copies[k].fileId = matched[k][1]
            /\ copies[k].body.name = matched[k][2]
       /\ cpc \in {"finish", "done"} =>
            /\ Len(copies) = n /\ Len(Outcomes) = n
            /\ success + Len(errors) = n
            /\ Len(errors) = Cardinality(Failed)
            /\ \A k \in Failed :
                 LET pos == Cardinality({j \in Failed : j <= k})
                     name == matched[k][2]
                 IN /\ Len(errors[pos]) > Len(name) + 2
                    /\ SubSeq(errors[pos], 1, Len(name) + 2) = name \o <<58, 32>>

\* three pairs, the second fails, the third is still copied
C4_Witness ==
    /\ cpc = "done"
    /\ Len(matched) = 3
    /\ Failed = {2}
    /\ success = 2
    /\ errors = <<ErrorLine(matched[2][2], <<69>>)>>

\* C5: after the bar's creation the trace is, item by item, the copy request,
\* its outcome, and the progress report k/total: the k-th report follows the
\* k-th outcome and precedes the (k+1)-th request.
C5_ProgressPerItem ==
    LET n == Len(matched)
        body == IF cpc = "done" THEN SubSeq(trace, 2, Len(trace) - 1)
                ELSE SubSeq(trace, 2, Len(trace))
    IN cpc # "start" =>
        /\ \A p \in 1..Len(body) :
            LET k == (p + 2) \div 3
            IN CASE p % 3 = 1 -> IsCopy(body[p])
                 [] p % 3 = 2 -> IsOutcome(body[p])
                 [] OTHER -> IsItemProgress(body[p]) /\ body[p].value = <<k, n>>
        /\ cpc = "await" => Len(body) = 3 * i + 1
        /\ cpc \in {"issue", "finish", "done"} => Len(body) = 3 * i
        /\ cpc \in {"finish", "done"} => i = n

\* the second copy is in flight and the first item's progress 1/3 was reported
\* after the first item failed
C5_Witness ==
    /\ cpc = "await"
    /\ i = 1
    /\ Len(matched) = 3
    /\ trace[3].ev = "raised"
    /\ trace[4] = Progress(1, 3, "Copying i/total...")

(* ------------------------- build_folder_paths ------------------------- *)
\* "My Drive (root)"
RootName == <<77, 121, 32, 68, 114, 105, 118, 101, 32, 40, 114, 111, 111, 116, 41>>

\* an id no listed folder has (a shared drive's root): "x"
AbsentId == <<120>>

\* folder names: "a", "a  (2)"
FolderNames == {<<97>>, <<97, 32, 32, 40, 50, 41>>}

Range(q) == {q[k] : k \in 1..Len(q)}

\* " / ".join(parts)
RECURSIVE Join(_)
Join(parts) ==
    IF parts = <<>> THEN <<>>
    ELSE IF Len(parts) = 1 THEN parts[1]
    ELSE parts[1] \o <<32, 47, 32>> \o Join(Tail(parts))

\* str(n) of a positive integer
RECURSIVE IntToStr(_)
IntToStr(n) == IF n < 10 THEN <<48 + n>> ELSE IntToStr(n \div 10) \o <<48 + (n % 10)>>

\* tuple comparison (s1, id1) < (s2, id2) of two sort keys
KeyLess(a, b) == StrLess(a[1], b[1]) \/ (a[1] = b[1] /\ StrLess(a[2], b[2]))

\* x put into the sorted list q behind every entry whose key is not greater
RECURSIVE Insert(_, _)
Insert(x, q) ==
    IF q = <<>> THEN <<x>>
    ELSE IF KeyLess(x.key, Head(q).key) THEN <<x>> \o q
    ELSE <<Head(q)>> \o Insert(x, Tail(q))

\* list.sort / sorted: stable, ascending by key
RECURSIVE SortByKey(_)
SortByKey(q) ==
    IF q = <<>> THEN <<>>
    ELSE Insert(q[Len(q)], SortByKey(SubSeq(q, 1, Len(q) - 1)))

\* id_to_folder.get(folder_id), with the virtual root
IdToFolder(raw, id) ==
    IF id = RootId THEN [id |-> RootId, name |-> RootName, parents |-> <<>>]
    ELSE LET at == {k \in 1..Len(raw) : raw[k].id = id}
         IN IF at = {} THEN None ELSE raw[Max(at)]

\* folder_id in id_to_folder
InIdToFolder(raw, id) == id = RootId \/ \E k \in 1..Len(raw) : raw[k].id = id

\* node["name"] if node else folder_id
NodeName(raw, id) == IF InIdToFolder(raw, id) THEN IdToFolder(raw, id).name ELSE id

get_children(raw, parent_id) ==
    LET IsChild(f) == f.parents # <<>> /\ parent_id \in Range(f.parents)
    IN SelectSeq(raw, IsChild)

\* children.sort(key=lambda f: (f["name"].lower(), f["id"]))
SortChildren(children) ==
    LET keyed == [k \in 1..Len(children) |->
                    [key |-> <<Lower(children[k].name), children[k].id>>,
                     val |-> children[k]]]
        sorted == SortByKey(keyed)
    IN [k \in 1..Len(sorted) |-> sorted[k].val]

\* the calls add_node(c["id"], parts) for c in children, the first one on top
Calls(children, parts) ==
    [k \in 1..Len(children) |-> [folder_id |-> children[k].id, path_parts |-> parts]]

\* add_node with a slip: the seen set is not consulted
add_node_no_seen(t) ==
    LET fr == Head(t.stack)
        name == NodeName(t.raw, fr.folder_id)
        current_path == IF fr.path_parts # <<>> THEN Join(Append(fr.path_parts, name))
                        ELSE name
        children == SortChildren(get_children(t.raw, fr.folder_id))
    IN [t EXCEPT !.seen = @ \cup {fr.folder_id},
                 !.paths_and_ids = Append(@, <<current_path, fr.folder_id>>),
                 !.stack = Calls(children, Append(fr.path_parts, name)) \o Tail(t.stack)]

\* one call of add_node: the call on top of the stack runs up to its loop
add_node(t) ==
    LET fr == Head(t.stack)
        name == NodeName(t.raw, fr.folder_id)
        current_path == IF fr.path_parts # <<>> THEN Join(Append(fr.path_parts, name))
                        ELSE name
        children == SortChildren(get_children(t.raw, fr.folder_id))
    IN IF fr.folder_id \in t.seen
       THEN [t EXCEPT !.stack = Tail(t.stack)]
       ELSE [t EXCEPT !.seen = @ \cup {fr.folder_id},
                      !.paths_and_ids = Append(@, <<current_path, fr.folder_id>>),
                      !.stack = Calls(children, Append(fr.path_parts, name))
                                  \o Tail(t.stack)]

\* orphan_turn with a slip: the children of an orphan are not visited
orphan_turn_no_children(t) ==
    LET f == t.raw[t.k]
        parents == f.parents
    IN IF f.id \in t.seen THEN [t EXCEPT !.k = @ + 1]
       ELSE IF parents = <<>> \/ ~InIdToFolder(t.raw, parents[1])
       THEN [t EXCEPT !.k = @ + 1,
                      !.paths_and_ids = Append(@, <<RootName \o <<32, 47, 32>> \o f.name, f.id>>),
                      !.seen = @ \cup {f.id}]
       ELSE [t EXCEPT !.k = @ + 1]

\* one turn of the loop over raw that attaches the orphans (lines 223-231)
orphan_turn(t) ==
    LET f == t.raw[t.k]
        parents == f.parents
    IN IF f.id \in t.seen THEN [t EXCEPT !.k = @ + 1]
       ELSE IF parents = <<>> \/ ~InIdToFolder(t.raw, parents[1])
       THEN [t EXCEPT !.k = @ + 1,
                      !.paths_and_ids = Append(@, <<RootName \o <<32, 47, 32>> \o f.name, f.id>>),
                      !.seen = @ \cup {f.id},
                      !.stack = Calls(get_children(t.raw, f.id), <<RootName, f.name>>)]
       ELSE [t EXCEPT !.k = @ + 1]

\* f"{path}  ({path_count[path]})"
Suffixed(path, n) == path \o <<32, 32, 40>> \o IntToStr(n) \o <<41>>

\* the loop that makes the labels (lines 234-239) over the sorted list q
RECURSIVE Uniquify(_)
Uniquify(q) ==
    IF q = <<>> THEN <<>>
    ELSE LET front == SubSeq(q, 1, Len(q) - 1)
             path == q[Len(q)][1]
             count == Cardinality({k \in 1..Len(q) : q[k][1] = path})
             label == IF count = 1 THEN path ELSE Suffixed(path, count)
         IN Append(Uniquify(front), <<label, q[Len(q)][2]>>)

\* sorted(paths_and_ids, key=lambda x: (x[0].lower(), x[1]))
SortPaths(q) ==
    LET keyed == [k \in 1..Len(q) |-> [key |-> <<Lower(q[k][1]), q[k][2]>>, val |-> q[k]]]
        sorted == SortByKey(keyed)
    IN [k \in 1..Len(sorted) |-> sorted[k].val]

\* raw, seen, paths_and_ids before add_node("root", [])
TreeStart(raw) ==
    [phase |-> "root", raw |-> raw, seen |-> {}, paths_and_ids |-> <<>>,
     stack |-> <<[folder_id |-> RootId, path_parts |-> <<>>]>>, k |-> 1, unique |-> <<>>]

\* the folder records list_folders_with_parents may return
FolderIds == {FolderIdOf(k) : k \in 1..MaxFolders}
ParentLists ==
    {ps \in SeqsUpTo(FolderIds \cup {RootId, AbsentId}, MaxParents) :
        \A a, b \in 1..Len(ps) : a # b => ps[a] # ps[b]}
\* the list of n records with the names ns and the parents ps, ids in listing order
RawOf(n, ns, ps) ==
    [k \in 1..n |-> [id |-> FolderIdOf(k), name |-> ns[k], parents |-> ps[k]]]

\* a call of add_node is pending
AddNodePending == tree.phase \in {"root", "orphans"} /\ tree.stack # <<>>

TreeAddNode ==
    /\ AddNodePending
    /\ tree' = add_node(tree)
    /\ UNCHANGED <<listVars, resolveVars, matched, copyVars, app>>

\* add_node("root", []) has returned
RootReturned == tree.phase = "root" /\ tree.stack = <<>>

\* line 221 is done: the loop over raw starts
TreeRootDone ==
    /\ RootReturned
    /\ tree' = [tree EXCEPT !.phase = "orphans"]
    /\ UNCHANGED <<listVars, resolveVars, matched, copyVars, app>>

\* the loop over raw is at a record, no call of add_node pending
OrphanTurnPending ==
    tree.phase = "orphans" /\ tree.stack = <<>> /\ tree.k <= Len(tree.raw)

TreeOrphan ==
    /\ OrphanTurnPending
    /\ tree' = orphan_turn(tree)
    /\ UNCHANGED <<listVars, resolveVars, matched, copyVars, app>>

\* the loop over raw is over
OrphansDone == tree.phase = "orphans" /\ tree.stack = <<>> /\ tree.k > Len(tree.raw)

TreeUniquify ==
    /\ OrphansDone
    /\ tree' = [tree EXCEPT !.phase = "done",
                            !.unique = Uniquify(SortPaths(tree.paths_and_ids))]
    /\ UNCHANGED <<listVars, resolveVars, matched, copyVars, app>>

InitTree ==
    /\ IdleList /\ IdleResolve /\ IdleCopy /\ IdleApp
    /\ matched = <<>>
    /\ \E n \in 0..MaxFolders :
         \E ns \in [1..n -> FolderNames], ps \in [1..n -> ParentLists] :
            tree = TreeStart(RawOf(n, ns, ps))

NextTree == TreeAddNode \/ TreeRootDone \/ TreeOrphan \/ TreeUniquify

SpecTree == InitTree /\ [][NextTree]_vars

(* ------------------- properties of build_folder_paths ----------------- *)
IdsOf(raw) == {raw[k].id : k \in 1..Len(raw)}

ParentsOf(raw, S) == UNION {Range(raw[k].parents) : k \in {j \in 1..Len(raw) : raw[j].id \in S}}

RECURSIVE Closure(_, _, _)
Closure(raw, S, n) == IF n = 0 THEN S ELSE Closure(raw, S \cup ParentsOf(raw, S), n - 1)

\* every folder id reached from id by following declared parents
Ancestors(raw, id) == Closure(raw, ParentsOf(raw, {id}), Len(raw))

HasCycle(raw) == \E id \in IdsOf(raw) : id \in Ancestors(raw, id)

ParentsPresent(raw) ==
    \A k \in 1..Len(raw) : Range(raw[k].parents) \subseteq IdsOf(raw) \cup {RootId}

\* how many entries of the list q of (label, id) pairs carry the id
Entries(q, id) == Cardinality({k \in 1..Len(q) : q[k][2] = id})

\* C6: without a cycle and with every declared parent listed (or the root),
\* the catalog has one entry for the root and one for every record.
C6_EveryRecordOnce ==
    (tree.phase = "done" /\ ~HasCycle(tree.raw) /\ ParentsPresent(tree.raw)) =>
        /\ Len(tree.unique) = Len(tree.raw) + 1
        /\ \A id \in IdsOf(tree.raw) \cup {RootId} : Entries(tree.unique, id) = 1

\* three records, none cyclic: a parentless one, one under the root, one with
\* two parents
C6_Witness ==
    /\ tree.phase = "done"
    /\ Len(tree.raw) = 3
    /\ ~HasCycle(tree.raw) /\ ParentsPresent(tree.raw)
    /\ tree.raw[1].parents = <<>>
    /\ tree.raw[2].parents = <<RootId>>
    /\ tree.raw[3].parents = <<FolderIdOf(1), FolderIdOf(2)>>
    /\ Len(tree.unique) = 4

\* what is left to do: falls with every step of the builder
Measure(t) ==
    IF t.phase \notin {"root", "orphans"} THEN 0
    ELSE 1 + (IF t.phase = "root" THEN 1 ELSE 0)
           + (Len(t.raw) + 1 - t.k) + Len(t.stack)
           + (Len(t.raw) + 1) * Cardinality((IdsOf(t.raw) \cup {RootId}) \ t.seen)

\* one of the builder's steps can be taken
TreeCanStep == AddNodePending \/ RootReturned \/ OrphanTurnPending \/ OrphansDone

\* C7: with a parent cycle among the records the builder still ends (it can
\* take a step until it is done, and every step lowers a measure that is never
\* negative), and no folder id gets two entries.
C7_CycleTerminates ==
    /\ [](HasCycle(tree.raw) =>
            /\ tree.phase = "done" \/ TreeCanStep
            /\ Measure(tree) >= 0
            /\ \A id \in IdsOf(tree.raw) \cup {RootId} :
                 Entries(tree.paths_and_ids, id) <= 1 /\ Entries(tree.unique, id) <= 1)
    /\ [][HasCycle(tree.raw) => Measure(tree') < Measure(tree)]_vars

\* done, with a cycle of two folders that the traversal from the root entered
\* and a folder that is its own parent
C7_Witness ==
    /\ tree.phase = "done"
    /\ Len(tree.raw) = 3
    /\ tree.raw[1].parents = <<RootId, FolderIdOf(2)>>
    /\ tree.raw[2].parents = <<FolderIdOf(1)>>
    /\ tree.raw[3].parents = <<AbsentId, FolderIdOf(3)>>
    /\ Len(tree.unique) = 4

\* C8: the labels of a catalog are pairwise distinct.
C8_LabelsDistinct ==
    tree.phase = "done" =>
        \A j, k \in 1..Len(tree.unique) :
            j # k => tree.unique[j][1] # tree.unique[k][1]

\* the path given to the folder id
PathOf(t, id) == t.paths_and_ids[CHOOSE k \in 1..Len(t.paths_and_ids) :
                                    t.paths_and_ids[k][2] = id][1]

\* C9: a record with several parents, whose first parent is in the catalog,
\* has the path of its first parent followed by its own name.
C9_FirstParentOnly ==
    tree.phase = "done" =>
        \A k \in 1..Len(tree.raw) :
            LET f == tree.raw[k]
            IN (Len(f.parents) > 1 /\ f.id \in tree.seen /\ f.parents[1] \in tree.seen
                  /\ f.parents[1] # f.id) =>
                 PathOf(tree, f.id) =
                    PathOf(tree, f.parents[1]) \o <<32, 47, 32>> \o f.name

\* C13: every listed folder record has an entry in the catalog.
C13_EveryFolderListed ==
    tree.phase = "done" =>
        \A id \in IdsOf(tree.raw) : Entries(tree.unique, id) >= 1

\* one step of build_folder_paths from the state t
TreeStep(t) ==
    IF t.stack # <<>> THEN add_node(t)
    ELSE IF t.phase = "root" THEN [t EXCEPT !.phase = "orphans"]
    ELSE IF t.k <= Len(t.raw) THEN orphan_turn(t)
    ELSE [t EXCEPT !.phase = "done", !.unique = Uniquify(SortPaths(t.paths_and_ids))]

\* build_folder_paths run to its return from the state t
RECURSIVE RunTree(_)
RunTree(t) == IF t.phase = "done" THEN t ELSE RunTree(TreeStep(t))

\* the catalog build_folder_paths returns when the listing returns raw
CatalogOf(raw) == RunTree(TreeStart(raw)).unique

Perms(n) == {p \in [1..n -> 1..n] : \A a, b \in 1..n : a # b => p[a] # p[b]}

\* C14: the catalog is the same for every order in which the listing returns
\* the same records.
C14_OrderIndependent ==
    tree.phase = "done" =>
        \A p \in Perms(Len(tree.raw)) :
            CatalogOf([k \in 1..Len(tree.raw) |-> tree.raw[p[k]]]) = tree.unique

(* ------------------- the app's cached file listing -------------------- *)
\* the folder ids the source selectbox may give
AppFolders == {RootId, FolderIdOf(1)}

\* a script run may begin: the user acted on the page, or st.rerun() was called
RunStarts == app.pc \in {"idle", "rerun"}

\* the history fields at the beginning of a run
BeginRun(a) == [a EXCEPT !.follows_click = (a.pc = "rerun"), !.fetched = FALSE]

\* build_folder_paths raises: st.error and return, before the cache is looked at
AppBuildFails ==
    /\ RunStarts
    /\ app' = [BeginRun(app) EXCEPT !.pc = "idle"]
    /\ UNCHANGED <<listVars, resolveVars, matched, copyVars, tree>>

\* build_folder_paths returns and the selectbox gives the source folder
AppSelect ==
    /\ RunStarts
    /\ \E id \in AppFolders :
        app' = [BeginRun(app) EXCEPT !.pc = "cache", !.source_folder_id = id]
    /\ UNCHANGED <<listVars, resolveVars, matched, copyVars, tree>>

\* source_files_cache_id == source_folder_id: the cache is used as it is
AppCacheHit ==
    /\ app.pc = "cache"
    /\ app.source_files_cache_id = app.source_folder_id
    /\ app' = [app EXCEPT !.pc = "loaded"]
    /\ UNCHANGED <<listVars, resolveVars, matched, copyVars, tree>>

\* source_files_cache_id != source_folder_id: list_files_in_folder is called
AppCacheMiss ==
    /\ app.pc = "cache"
    /\ app.source_files_cache_id # app.source_folder_id
    /\ ListFilesCall
    /\ app' = [app EXCEPT !.pc = "loading", !.fetched = TRUE, !.pending = FALSE]
    /\ UNCHANGED <<resolveVars, matched, copyVars, tree>>

AppListRequest ==
    /\ app.pc = "loading"
    /\ FilesRequest
    /\ UNCHANGED <<resolveVars, matched, copyVars, tree, app>>

AppListResponse ==
    /\ app.pc = "loading"
    /\ FilesResponse
    /\ UNCHANGED <<resolveVars, matched, copyVars, tree, app>>

AppListRaise ==
    /\ app.pc = "loading"
    /\ FilesRaise
    /\ UNCHANGED <<resolveVars, matched, copyVars, tree, app>>

\* list_files_in_folder returned: the try branch
AppCacheStore ==
    /\ app.pc = "loading"
    /\ list_pc = "returned"
    /\ app' = [app EXCEPT !.pc = "loaded",
                          !.source_files_cache = files,
                          !.source_files_cache_id = app.source_folder_id]
    /\ UNCHANGED <<listVars, resolveVars, matched, copyVars, tree>>

\* list_files_in_folder raised: the except branch
AppCacheFail ==
    /\ app.pc = "loading"
    /\ list_pc = "raised"
    /\ app' = [app EXCEPT !.pc = "loaded",
                          !.source_files_cache = <<>>,
                          !.source_files_cache_id = app.source_folder_id]
    /\ UNCHANGED <<listVars, resolveVars, matched, copyVars, tree>>

\* AppRefresh with a slip: the cache id is not reset
AppRefreshKeepsCache ==
    /\ app.pc = "loaded"
    /\ app' = [app EXCEPT !.pc = "rerun", !.pending = TRUE]
    /\ UNCHANGED <<listVars, resolveVars, matched, copyVars, tree>>

\* st.button("Refresh file list") is True: reset the cache id and st.rerun()
AppRefresh ==
    /\ app.pc = "loaded"
    /\ app' = [app EXCEPT !.pc = "rerun", !.pending = TRUE,
                          !.source_files_cache_id = NoFolder]
    /\ UNCHANGED <<listVars, resolveVars, matched, copyVars, tree>>

\* the button is False: the rest of the script leaves the cache alone
AppRunEnd ==
    /\ app.pc = "loaded"
    /\ app' = [app EXCEPT !.pc = "idle"]
    /\ UNCHANGED <<listVars, resolveVars, matched, copyVars, tree>>

InitApp ==
    /\ IdleList /\ IdleResolve /\ IdleCopy /\ IdleTree /\ IdleApp
    /\ matched = <<>>

NextApp ==
    \/ AppBuildFails \/ AppSelect \/ AppCacheHit \/ AppCacheMiss
    \/ AppListRequest \/ AppListResponse \/ AppListRaise
    \/ AppCacheStore \/ AppCacheFail \/ AppRefresh \/ AppRunEnd

SpecApp == InitApp /\ [][NextApp]_vars

\* a run at the cache-load step whose selection is not the cache's folder
\* calls list_files_in_folder
RefetchOnMismatch ==
    [][(app.pc = "cache" /\ app.source_files_cache_id # app.source_folder_id) =>
          (app'.pc = "loading" /\ call' = "list_files_in_folder"
           /\ list_pc' = "request" /\ requests' = <<>>)]_vars

\* after the cache-load step the cache's folder id is the selected folder id
CacheMatchesSelection ==
    [](app.pc = "loaded" => app.source_files_cache_id = app.source_folder_id)

\* C12 as stated: the listing is refetched on a mismatch and in the run that
\* follows a click on "Refresh file list", and after the cache-load step the
\* cache's folder id is the selected one.
C12_RefetchInNextRun ==
    /\ RefetchOnMismatch
    /\ [](RunStarts /\ app.follows_click => app.fetched)
    /\ CacheMatchesSelection

\* C12, amended: the listing is refetched in every run that reaches the
\* cache-load step with a selection other than the cache's folder, and in the
\* first run after a click on "Refresh file list" that reaches the cache-load
\* step (no click is still unanswered after a cache-load step); after the
\* cache-load step the cache's folder id is the selected folder id.
C12_RefetchAtNextCacheLoad ==
    /\ RefetchOnMismatch
    /\ [](app.pc = "loaded" => ~app.pending)
    /\ CacheMatchesSelection

C12_Witness ==
    /\ app.pc = "loaded"
    /\ app.follows_click
    /\ app.fetched
    /\ list_pc = "raised"
    /\ app.source_files_cache_id = FolderIdOf(1)

====
